---- MODULE Spec2Model ----
(***************************************************************************)
(* A model of HandyApi (src/src/api/handyApi.ts): the clock synchronizer   *)
(* (getServerTime, syncTime, estimateServerTime, setServerTimeOffset) and  *)
(* the request/response layer of the device commands built on it.          *)
(*                                                                         *)
(* Numbers.  Offsets are halves and means of halves, so serverTimeOffset   *)
(* is kept as an exact fraction [num, den] in lowest terms; a sample keeps *)
(* twice its offset (off2 = 2 * offset), which is an integer.  The double  *)
(* rounding error of the mean is not modelled.                             *)
(***************************************************************************)
EXTENDS Integers, Sequences, FiniteSets, TLC

VARIABLES
    now,               \* Date.now(), the local clock
    serverTimeOffset,  \* HandyApi.serverTimeOffset, a fraction [num, den]
    connectionKey,     \* HandyApi.connectionKey
    round,             \* the invocations of syncTime, by round id
    call,              \* the invocations of the other asynchronous operations
    net,               \* the HTTP requests in flight
    hist,              \* history: who wrote serverTimeOffset, and what
    observed           \* history: the latest probe, where probes are watched

vars ==
    <<now, serverTimeOffset, connectionKey, round, call, net, hist, observed>>

(***************************************************************************)
(* Bounds of the model.                                                    *)
(***************************************************************************)
MaxNow == 1            \* the clock runs from 0 to MaxNow
MaxSampleCount == 2    \* sampleCount of a round of the interleaved model
MaxSamples == 5        \* successful samples handed to the aggregation

Rounds == {1, 2}
Calls == {1}

(***************************************************************************)
(* JavaScript values, as far as the response handling looks at them.       *)
(***************************************************************************)
NoFields == [x \in {} |-> 0]

Undef == [t |-> "undef", b |-> FALSE, n |-> 0, s |-> "", f |-> NoFields]
Null == [t |-> "null", b |-> FALSE, n |-> 0, s |-> "", f |-> NoFields]
Bool(v) == [t |-> "bool", b |-> v, n |-> 0, s |-> "", f |-> NoFields]
Num(v) == [t |-> "num", b |-> FALSE, n |-> v, s |-> "", f |-> NoFields]
Str(v) == [t |-> "str", b |-> FALSE, n |-> 0, s |-> v, f |-> NoFields]
Obj(fields) == [t |-> "obj", b |-> FALSE, n |-> 0, s |-> "", f |-> fields]

\* v is null or undefined: reading a property of it throws a TypeError
Nullish(v) == v.t \in {"undef", "null"}

\* the truthiness !!v, and what `v || w` tests
Truthy(v) ==
    CASE v.t = "bool" -> v.b
      [] v.t = "num" -> v.n # 0
      [] v.t = "str" -> v.s # ""
      [] v.t = "obj" -> TRUE
      [] OTHER -> FALSE

\* v.name of a value that is not nullish
P(v, name) == IF v.t = "obj" /\ name \in DOMAIN v.f THEN v.f[name] ELSE Undef

\* v?.name
OptP(v, name) == IF Nullish(v) THEN Undef ELSE P(v, name)

\* v || w
OrElse(v, w) == IF Truthy(v) THEN v ELSE w

(***************************************************************************)
(* What an awaited expression yields: a value, or a thrown exception.      *)
(***************************************************************************)
Ret(v) == [raised |-> FALSE, val |-> v]
Raised == [raised |-> TRUE, val |-> Undef]

(***************************************************************************)
(* Response bodies the device may answer with.                             *)
(***************************************************************************)
ErrorObj == Obj([code |-> Num(4), name |-> Str("x"), message |-> Str("y"),
                 connected |-> Bool(FALSE)])
FullResult == Obj([connected |-> Bool(TRUE), mode |-> Num(1),
                   stream_id |-> Num(7), offset |-> Num(5),
                   min |-> Num(1), max |-> Num(9)])
FalsyResult == Obj([connected |-> Bool(FALSE), mode |-> Num(0),
                    stream_id |-> Num(0), offset |-> Num(0)])

BodyNull == Null
BodyEmpty == Obj(NoFields)
BodyError == Obj([error |-> ErrorObj])
BodyEmptyResult == Obj([result |-> Obj(NoFields)])
BodyFull == Obj([result |-> FullResult])
BodyFalsy == Obj([result |-> FalsyResult])
BodyStrId == Obj([result |-> Obj([stream_id |-> Str("s1")])])
BodyEmptyStrId == Obj([result |-> Obj([stream_id |-> Str("")])])
BodyOk == Obj([result |-> Str("ok")])
BodyNullResult == Obj([result |-> Null])
BodyTime(t) == Obj([server_time |-> Num(t)])
BodyNullTime == Obj([server_time |-> Null])

Bodies ==
    {BodyNull, BodyEmpty, BodyError, BodyEmptyResult, BodyFull, BodyFalsy,
     BodyStrId, BodyEmptyStrId, BodyOk, BodyNullResult}

\* the remote timestamps a probe may be answered with; 0 is falsy
ServerTimes == {0, 5}

NetErr == [kind |-> "neterr", body |-> Undef]    \* fetch rejects
BadJson == [kind |-> "badjson", body |-> Undef]  \* response.json() rejects
Ok(body) == [kind |-> "ok", body |-> body]

Outcomes == {NetErr, BadJson} \cup {Ok(b) : b \in Bodies}
ProbeOutcomes ==
    {NetErr, BadJson, Ok(BodyNull), Ok(BodyEmpty), Ok(BodyNullTime)}
        \cup {Ok(BodyTime(t)) : t \in ServerTimes}
OutcomesOf(op) == IF op = "getServerTime" THEN ProbeOutcomes ELSE Outcomes
CommandOutcomes == {NetErr, Ok(BodyFull)}

(***************************************************************************)
(* request and the operations built on it.  Each operation is given the    *)
(* outcome of its HTTP exchange and yields what its promise settles to.    *)
(***************************************************************************)

\* request(): fetch and response.json() inside try; the catch logs and rethrows
request(resp) == IF resp.kind = "ok" THEN Ret(resp.body) ELSE Raised

\* `response.result` inside an operation's try block: throws when request
\* threw, and (a TypeError) when the body parsed to null
ResultOf(resp) ==
    LET response == request(resp)
    IN  IF response.raised THEN Raised
        ELSE IF Nullish(response.val) THEN Raised
        ELSE Ret(P(response.val, "result"))

isConnected(resp) ==
    LET r == ResultOf(resp)
    IN  IF r.raised THEN Ret(Bool(FALSE))
        ELSE Ret(Bool(Truthy(OptP(r.val, "connected"))))

getDeviceInfo_NoDefault(resp) ==
    LET r == ResultOf(resp)
    IN  IF r.raised THEN Ret(Null) ELSE Ret(r.val)

getDeviceInfo(resp) ==
    LET r == ResultOf(resp)
    IN  IF r.raised THEN Ret(Null) ELSE Ret(OrElse(r.val, Null))

getMode_NoCatch(resp) ==
    LET r == ResultOf(resp)
        mode == OptP(r.val, "mode")
    IN  IF r.raised THEN Raised
        ELSE Ret(IF Nullish(mode) THEN Null ELSE mode)

getMode(resp) ==
    LET r == ResultOf(resp)
        mode == OptP(r.val, "mode")
    IN  IF r.raised THEN Ret(Null)
        ELSE Ret(IF Nullish(mode) THEN Null ELSE mode)

setupScript_AnyResult(resp) ==
    LET r == ResultOf(resp)
    IN  IF r.raised THEN Ret(Bool(FALSE)) ELSE Ret(Bool(Truthy(r.val)))

setupScript(resp) ==
    LET r == ResultOf(resp)
    IN  IF r.raised THEN Ret(Bool(FALSE))
        ELSE Ret(Bool(Truthy(OptP(r.val, "stream_id"))))

play(resp) ==
    LET r == ResultOf(resp)
    IN  IF r.raised THEN Ret(Null) ELSE Ret(OrElse(r.val, Null))

stop(resp) ==
    LET r == ResultOf(resp)
    IN  IF r.raised THEN Ret(Null) ELSE Ret(OrElse(r.val, Null))

syncVideoTime(resp) ==
    LET r == ResultOf(resp)
    IN  IF r.raised THEN Ret(Bool(FALSE))
        ELSE Ret(Bool(Truthy(OptP(r.val, "stream_id"))))

getOffset(resp) ==
    LET r == ResultOf(resp)
    IN  IF r.raised THEN Ret(Num(0))
        ELSE Ret(OrElse(OptP(r.val, "offset"), Num(0)))

setOffset(resp) ==
    LET r == ResultOf(resp)
    IN  IF r.raised THEN Ret(Bool(FALSE)) ELSE Ret(Bool(r.val = Str("ok")))

getStrokeSettings(resp) ==
    LET r == ResultOf(resp)
    IN  IF r.raised THEN Ret(Null) ELSE Ret(OrElse(r.val, Null))

setStrokeSettings(resp) ==
    LET r == ResultOf(resp)
    IN  IF r.raised THEN Ret(Null) ELSE Ret(OrElse(r.val, Null))

\* getServerTime(): its own fetch and json() inside try; `data.server_time ||
\* null`, and null from the catch (a rejection, or data parsed to null)
getServerTime(resp) ==
    IF resp.kind # "ok" THEN Ret(Null)
    ELSE IF Nullish(resp.body) THEN Ret(Null)
    ELSE Ret(OrElse(P(resp.body, "server_time"), Null))

RequestOps ==
    {"isConnected", "getDeviceInfo", "getMode", "setupScript", "play", "stop",
     "syncVideoTime", "getOffset", "setOffset", "getStrokeSettings",
     "setStrokeSettings"}
AllOps == RequestOps \cup {"getServerTime"}
TimedOps == {"play", "syncVideoTime"}

\* what operation op settles to, given the outcome of its exchange
Settle(op, resp) ==
    CASE op = "isConnected" -> isConnected(resp)
      [] op = "getDeviceInfo" -> getDeviceInfo(resp)
      [] op = "getMode" -> getMode(resp)
      [] op = "setupScript" -> setupScript(resp)
      [] op = "play" -> play(resp)
      [] op = "stop" -> stop(resp)
      [] op = "syncVideoTime" -> syncVideoTime(resp)
      [] op = "getOffset" -> getOffset(resp)
      [] op = "setOffset" -> setOffset(resp)
      [] op = "getStrokeSettings" -> getStrokeSettings(resp)
      [] op = "setStrokeSettings" -> setStrokeSettings(resp)
      [] op = "getServerTime" -> getServerTime(resp)

Endpoint(op) ==
    CASE op = "isConnected" -> "/connected"
      [] op = "getDeviceInfo" -> "/info"
      [] op = "getMode" -> "/mode"
      [] op = "setupScript" -> "/hssp/setup"
      [] op = "play" -> "/hssp/play"
      [] op = "stop" -> "/hssp/stop"
      [] op = "syncVideoTime" -> "/hssp/synctime"
      [] op \in {"getOffset", "setOffset"} -> "/hstp/offset"
      [] op \in {"getStrokeSettings", "setStrokeSettings"} -> "/slider/stroke"
      [] op = "getServerTime" -> "/servertime"

(***************************************************************************)
(* Fractions.                                                              *)
(***************************************************************************)
Abs(x) == IF x < 0 THEN -x ELSE x

RECURSIVE Gcd(_, _)
Gcd(a, b) == IF b = 0 THEN a ELSE Gcd(b, a % b)

\* num / den in lowest terms, den > 0
Frac(num, den) ==
    LET g == Gcd(Abs(num), den)
    IN  [num |-> num \div g, den |-> den \div g]

Zero == [num |-> 0, den |-> 1]

\* Math.round(t + x) of an integer t and a fraction x: the nearest integer,
\* a tie going up
MathRound(t, x) == (2 * (t * x.den + x.num) + x.den) \div (2 * x.den)

MathFloor(t, x) == (t * x.den + x.num) \div x.den

(***************************************************************************)
(* The clock synchronizer's pure parts.                                    *)
(***************************************************************************)

estimateServerTime_Floor(t, offset) == MathFloor(t, offset)

\* estimateServerTime(): Math.round(Date.now() + this.serverTimeOffset)
estimateServerTime(t, offset) == MathRound(t, offset)

Sample_NoHalving(startT, endT, serverTime) ==
    [rtd |-> endT - startT, off2 |-> 2 * serverTime - 2 * endT]

\* one sample of syncTime: rtd = end - start, offset = rtd / 2 + serverTime - end
Sample(startT, endT, serverTime) ==
    LET rtd == endT - startT
    IN  [rtd |-> rtd, off2 |-> rtd + 2 * serverTime - 2 * endT]

\* samples.sort((a, b) => a.rtd - b.rtd): ascending by rtd, stable
RECURSIVE Insert(_, _)
Insert(x, s) ==
    IF s = <<>> THEN <<x>>
    ELSE IF s[Len(s)].rtd <= x.rtd THEN Append(s, x)
    ELSE Append(Insert(x, SubSeq(s, 1, Len(s) - 1)), s[Len(s)])

RECURSIVE SortByRtd(_)
SortByRtd(s) ==
    IF s = <<>> THEN <<>>
    ELSE Insert(s[Len(s)], SortByRtd(SubSeq(s, 1, Len(s) - 1)))

UsableCount_Floor(n) == IF n > 3 THEN (4 * n) \div 5 ELSE n

\* samples.length > 3 ? Math.ceil(samples.length * 0.8) : samples.length
\* (the double product n * 0.8 has the ceiling of 4n/5 for every n < 200000)
UsableCount(n) == IF n > 3 THEN (4 * n + 4) \div 5 ELSE n

usableSamples(samples) == SubSeq(SortByRtd(samples), 1, UsableCount(Len(samples)))

RECURSIVE SumOff2(_)
SumOff2(s) == IF s = <<>> THEN 0 ELSE s[1].off2 + SumOff2(Tail(s))

\* usableSamples.reduce((acc, sample) => acc + sample.offset, 0) / length
averageOffset(usable) == Frac(SumOff2(usable), 2 * Len(usable))

syncTimeTail_ReturnZero(samples, cur) ==
    IF Len(samples) > 0
    THEN [offset |-> averageOffset(usableSamples(samples)),
          ret |-> averageOffset(usableSamples(samples))]
    ELSE [offset |-> cur, ret |-> Zero]

syncTimeTail_Reset(samples, cur) ==
    IF Len(samples) > 0
    THEN [offset |-> averageOffset(usableSamples(samples)),
          ret |-> averageOffset(usableSamples(samples))]
    ELSE [offset |-> Zero, ret |-> Zero]

\* syncTime after its loop: the new serverTimeOffset and the value returned
syncTimeTail(samples, cur) ==
    IF Len(samples) > 0
    THEN [offset |-> averageOffset(usableSamples(samples)),
          ret |-> averageOffset(usableSamples(samples))]
    ELSE [offset |-> cur, ret |-> cur]

NextProbes_AllAtOnce(i, n) == IF i = 0 THEN 0 .. (n - 1) ELSE {}

\* the probes syncTime's loop sends on reaching iteration i of n: the loop
\* awaits each getServerTime() before it goes on
NextProbes(i, n) == IF i < n THEN {i} ELSE {}

(***************************************************************************)
(* Requests.                                                               *)
(***************************************************************************)
ApplicationId == "app"
Keys == {"k1", "k2"}
SetterValues == {3}
VideoTimes == {[num |-> 1234, den |-> 1000]}

NoHeaders == [present |-> FALSE, key |-> "", auth |-> ""]

getHeaders_Stale(key) ==
    [present |-> TRUE, key |-> "", auth |-> ApplicationId]

\* getHeaders(): X-Connection-Key and Authorization, from the fields as they
\* are when it is called
getHeaders(key) ==
    [present |-> TRUE, key |-> key, auth |-> ApplicationId]

NoBody == [timed |-> FALSE, server_time |-> 0, video_ms |-> 0]
NoGhost == [at |-> 0, written |-> Zero, roundWritten |-> Zero]

\* the fetch of getServerTime(): the bare URL, no options
ProbeMsg(r, j) ==
    [kind |-> "probe", id |-> r, seq |-> j, endpoint |-> "/servertime",
     hdr |-> NoHeaders, body |-> NoBody, ghost |-> NoGhost]

\* the fetch of operation op, called at this moment with video time v
CallMsg(c, op, v) ==
    [kind |-> "call", id |-> c, seq |-> 0, endpoint |-> Endpoint(op),
     hdr |-> IF op \in RequestOps THEN getHeaders(connectionKey) ELSE NoHeaders,
     body |-> IF op \in TimedOps
              THEN [timed |-> TRUE,
                    server_time |-> estimateServerTime(now, serverTimeOffset),
                    video_ms |-> MathRound(0, Frac(1000 * v.num, v.den))]
              ELSE NoBody,
     ghost |-> IF op \in TimedOps
               THEN [at |-> now, written |-> hist.lastWrite,
                     roundWritten |-> hist.lastRoundWrite]
               ELSE NoGhost]

(***************************************************************************)
(* State.                                                                  *)
(*                                                                         *)
(* A round holds syncTime's locals (sampleCount, i, start, samples) while  *)
(* it runs, and its return value once done; the locals end with the call.  *)
(* The other fields are history: issued counts the probes sent, pre is     *)
(* serverTimeOffset as the round found it, foreign says that somebody else *)
(* changed serverTimeOffset while the round ran, ok counts the probes that *)
(* were answered with a timestamp and got the samples pushed.              *)
(***************************************************************************)
IdleRound ==
    [pc |-> "idle", sampleCount |-> 0, i |-> 0, start |-> 0, samples |-> <<>>,
     ret |-> Zero, issued |-> 0, pre |-> Zero,
     foreign |-> FALSE, ok |-> 0, got |-> 0]

IdleCall == [pc |-> "idle", op |-> "", ret |-> Ret(Undef), resp |-> NetErr]

InitHist == [writer |-> "init", lastWrite |-> Zero, lastRoundWrite |-> Zero]

NoProbe ==
    [cls |-> "none", id |-> 0, t0 |-> 0, t1 |-> 0, remote |-> 0,
     pushed |-> <<>>, left |-> 0]

\* what the outcome of a probe says of the remote time endpoint
Classify(resp) ==
    IF resp.kind = "neterr" THEN "unreachable"
    ELSE IF /\ resp.kind = "ok"
            /\ resp.body.t = "obj"
            /\ "server_time" \in DOMAIN resp.body.f
            /\ resp.body.f["server_time"].t = "num"
            /\ resp.body.f["server_time"].n # 0
         THEN "time"
         ELSE "unusable"

\* the rounds other than r that are in flight see a write they did not make
MarkForeign(rd, r, changed) ==
    [q \in Rounds |->
        IF q # r /\ rd[q].pc = "await" /\ changed
        THEN [rd[q] EXCEPT !.foreign = TRUE]
        ELSE rd[q]]

Init ==
    /\ now = 0
    /\ serverTimeOffset = Zero
    /\ connectionKey = ""
    /\ round = [r \in Rounds |-> IdleRound]
    /\ call = [c \in Calls |-> IdleCall]
    /\ net = {}
    /\ hist = InitHist
    /\ observed = NoProbe

(***************************************************************************)
(* Actions.                                                                *)
(***************************************************************************)

\* the local clock advances
Tick ==
    /\ now < MaxNow
    /\ now' = now + 1
    /\ UNCHANGED <<serverTimeOffset, connectionKey, round, call, net, hist,
                   observed>>

\* setConnectionKey(k)
SetConnectionKey(k) ==
    /\ connectionKey' = k
    /\ UNCHANGED <<now, serverTimeOffset, round, call, net, hist, observed>>

\* setServerTimeOffset(o)
SetServerTimeOffset(o) ==
    /\ serverTimeOffset' = Frac(o, 1)
    /\ hist' = [hist EXCEPT !.writer = "setServerTimeOffset",
                            !.lastWrite = Frac(o, 1)]
    /\ round' = MarkForeign(round, 0, Frac(o, 1) # serverTimeOffset)
    /\ UNCHANGED <<now, connectionKey, call, net, observed>>

\* the end of a round r whose loop is over with rs.samples collected: the
\* tail of syncTime, up to its return
Finish(r, rs) ==
    LET tail == syncTimeTail(rs.samples, serverTimeOffset)
        wrote == Len(rs.samples) > 0
        changed == tail.offset # serverTimeOffset
        done == [rs EXCEPT !.pc = "done", !.ret = tail.ret, !.i = 0,
                           !.start = 0, !.samples = <<>>]
    IN  /\ serverTimeOffset' = tail.offset
        /\ round' = [MarkForeign(round, r, changed) EXCEPT ![r] = done]
        /\ hist' = [writer |-> IF changed THEN "syncTime" ELSE hist.writer,
                    lastWrite |-> IF wrote THEN tail.ret ELSE hist.lastWrite,
                    lastRoundWrite |->
                        IF wrote THEN tail.ret ELSE hist.lastRoundWrite]

\* syncTime(n) is called: it runs to its first await, the first probe's
\* fetch, or to its end when n = 0
SyncTimeStart(r, n) ==
    /\ round[r].pc = "idle"
    /\ LET first == NextProbes(0, n)
           rs == [IdleRound EXCEPT !.sampleCount = n, !.start = now,
                                   !.pre = serverTimeOffset,
                                   !.issued = Cardinality(first)]
       IN  IF n > 0
           THEN /\ round' = [round EXCEPT ![r] = [rs EXCEPT !.pc = "await"]]
                /\ net' = net \cup {ProbeMsg(r, j) : j \in first}
                /\ UNCHANGED <<serverTimeOffset, hist>>
           ELSE /\ Finish(r, rs)
                /\ net' = net
    /\ UNCHANGED <<now, connectionKey, call, observed>>

\* what the loop body of round r pushes when its probe settles with resp:
\* nothing when getServerTime() gave a falsy value, else one sample
Pushed(r, resp) ==
    LET serverTime == getServerTime(resp)
    IN  IF serverTime.raised \/ ~Truthy(serverTime.val) THEN <<>>
        ELSE <<Sample(round[r].start, now, serverTime.val.n)>>

\* the probe in flight of round r settles with outcome resp: the rest of the
\* loop body, then the next probe's fetch or the tail of syncTime
ProbeStep(r, resp) ==
    /\ round[r].pc = "await"
    /\ \E m \in net :
        /\ m.kind = "probe" /\ m.id = r
        /\ LET rs == round[r]
               after == [rs EXCEPT
                           !.samples = @ \o Pushed(r, resp),
                           !.i = @ + 1,
                           !.ok = IF Classify(resp) = "time" THEN @ + 1 ELSE @,
                           !.got = @ + Len(Pushed(r, resp))]
               more == NextProbes(after.i, rs.sampleCount)
           IN  IF after.i < rs.sampleCount
               THEN /\ round' = [round EXCEPT ![r] =
                                   [after EXCEPT !.start = now,
                                                 !.issued = @ + Cardinality(more)]]
                    /\ net' = (net \ {m}) \cup {ProbeMsg(r, j) : j \in more}
                    /\ UNCHANGED <<serverTimeOffset, hist>>
               ELSE /\ Finish(r, after)
                    /\ net' = net \ {m}
    /\ UNCHANGED <<now, connectionKey, call>>

ProbeReturn(r, resp) == ProbeStep(r, resp) /\ UNCHANGED observed

\* the same, watched: observed keeps the probe's times and answer, what the
\* loop pushed for it, and how many probes of the round are left in flight
WatchedProbeReturn(r, resp) ==
    /\ ProbeStep(r, resp)
    /\ observed' =
        [cls |-> Classify(resp), id |-> r,
         t0 |-> IF Classify(resp) = "time" THEN round[r].start ELSE 0,
         t1 |-> IF Classify(resp) = "time" THEN now ELSE 0,
         remote |-> IF Classify(resp) = "time"
                    THEN resp.body.f["server_time"].n ELSE 0,
         pushed |-> Pushed(r, resp),
         left |-> Cardinality({m \in net' : m.kind = "probe" /\ m.id = r})]

\* operation op is called: it runs to its await of fetch
OpCall(c, op, v) ==
    /\ call[c].pc # "await"
    /\ call' = [call EXCEPT ![c] = [IdleCall EXCEPT !.pc = "await", !.op = op]]
    /\ net' = net \cup {CallMsg(c, op, v)}
    /\ UNCHANGED <<now, serverTimeOffset, connectionKey, round, hist, observed>>

\* the exchange of call c settles with outcome resp: the operation returns
OpReturn(c, resp) ==
    /\ call[c].pc = "await"
    /\ \E m \in net :
        /\ m.kind = "call" /\ m.id = c
        /\ net' = net \ {m}
    /\ call' = [call EXCEPT ![c] = [pc |-> "done", op |-> call[c].op,
                                    ret |-> Settle(call[c].op, resp),
                                    resp |-> resp]]
    /\ UNCHANGED <<now, serverTimeOffset, connectionKey, round, hist, observed>>

\* the tail of syncTime, for a round that stands right after its loop
TailStep(r) ==
    /\ round[r].pc = "tail"
    /\ Finish(r, round[r])
    /\ UNCHANGED <<now, connectionKey, call, net, observed>>

(***************************************************************************)
(* Spec: sync rounds, the setter and the clock, interleaved; every probe   *)
(* is watched.                                                             *)
(***************************************************************************)
Next ==
    \/ Tick
    \/ \E o \in SetterValues : SetServerTimeOffset(o)
    \/ \E r \in Rounds, n \in 0 .. MaxSampleCount : SyncTimeStart(r, n)
    \/ \E r \in Rounds, resp \in ProbeOutcomes : WatchedProbeReturn(r, resp)

Spec == Init /\ [][Next]_vars

(***************************************************************************)
(* SpecCmd: the same with the time-stamped commands play and               *)
(* syncVideoTime.  Round 1 sends up to MaxSampleCount probes; round 2, the *)
(* one that overlaps it, sends at most one.                                *)
(***************************************************************************)
CountsOf(r) == IF r = 1 THEN 0 .. MaxSampleCount ELSE {0, 1}

NextCmd ==
    \/ Tick
    \/ \E o \in SetterValues : SetServerTimeOffset(o)
    \/ \E r \in Rounds : \E n \in CountsOf(r) : SyncTimeStart(r, n)
    \/ \E r \in Rounds, resp \in ProbeOutcomes : ProbeReturn(r, resp)
    \/ \E c \in Calls, op \in TimedOps, v \in VideoTimes : OpCall(c, op, v)
    \/ \E c \in Calls, resp \in CommandOutcomes : OpReturn(c, resp)

SpecCmd == Init /\ [][NextCmd]_vars

(***************************************************************************)
(* SpecOps: every operation of the client against every outcome of its     *)
(* exchange, with key rotation, the setter and one sync round; the clock   *)
(* stands still.                                                           *)
(***************************************************************************)
NextOps ==
    \/ \E k \in Keys : SetConnectionKey(k)
    \/ \E o \in SetterValues : SetServerTimeOffset(o)
    \/ \E n \in 0 .. MaxSampleCount : SyncTimeStart(1, n)
    \/ \E resp \in ProbeOutcomes : ProbeReturn(1, resp)
    \/ \E c \in Calls, op \in AllOps, v \in VideoTimes : OpCall(c, op, v)
    \/ \E c \in Calls : \E resp \in OutcomesOf(call[c].op) : OpReturn(c, resp)

SpecOps == Init /\ [][NextOps]_vars

(***************************************************************************)
(* SpecAgg: the tail of syncTime applied to every list of up to MaxSamples *)
(* samples.                                                                *)
(***************************************************************************)
SampleValues == [rtd : {1, 2, 3}, off2 : {0, 3}]
SampleLists == UNION {[1 .. n -> SampleValues] : n \in 0 .. MaxSamples}

InitAgg ==
    /\ now = 0
    /\ serverTimeOffset = Frac(3, 1)
    /\ connectionKey = ""
    /\ \E s \in SampleLists :
        round = [r \in Rounds |->
                    IF r = 1
                    THEN [IdleRound EXCEPT !.pc = "tail", !.samples = s,
                                           !.sampleCount = Len(s),
                                           !.i = Len(s), !.issued = Len(s),
                                           !.ok = Len(s), !.got = Len(s),
                                           !.pre = Frac(3, 1)]
                    ELSE IdleRound]
    /\ call = [c \in Calls |-> IdleCall]
    /\ net = {}
    /\ hist = [InitHist EXCEPT !.writer = "setServerTimeOffset",
                               !.lastWrite = Frac(3, 1)]
    /\ observed = NoProbe

NextAgg == TailStep(1)

SpecAgg == InitAgg /\ [][NextAgg]_vars

(***************************************************************************)
(* Properties.                                                             *)
(***************************************************************************)

\* round r returns in this step
Completes(r) == round[r].pc # "done" /\ round'[r].pc = "done"

\* C1, as claimed: a round in which no probe succeeded returns the offset
\* that was stored before the round started.
C1_ReturnsPreRoundOffset ==
    \A r \in Rounds :
        round[r].pc = "done" /\ round[r].got = 0 => round[r].ret = round[r].pre

\* C1, amended: a round in which no probe succeeded leaves serverTimeOffset
\* as it is and returns the offset stored at the moment it finishes, which is
\* the pre-round offset whenever nobody else changed the offset while the
\* round ran; and a round that changes the offset collected at least one
\* sample and returns the value it stored.
C1_ZeroSuccessKeepsOffset ==
    [][\A r \in Rounds :
        Completes(r) =>
            /\ round'[r].got = 0 =>
                /\ serverTimeOffset' = serverTimeOffset
                /\ round'[r].ret = serverTimeOffset
                /\ ~round'[r].foreign => round'[r].ret = round'[r].pre
            /\ serverTimeOffset' # serverTimeOffset => round'[r].got >= 1
            /\ round'[r].got >= 1 => round'[r].ret = serverTimeOffset'
      ]_vars

\* a round of two probes, both failed, has returned the non-zero offset it
\* found
C1_Witness ==
    \E r \in Rounds :
        /\ round[r].pc = "done" /\ round[r].sampleCount = 2
        /\ round[r].got = 0 /\ ~round[r].foreign
        /\ round[r].ret = round[r].pre /\ round[r].ret # Zero

\* the sum of off2 over the samples of s at the indices K
RECURSIVE SumAt(_, _)
SumAt(s, K) ==
    IF K = {} THEN 0
    ELSE LET a == CHOOSE a \in K : TRUE IN s[a].off2 + SumAt(s, K \ {a})

\* x is the mean offset of k samples of s of lowest rtd, where k is the
\* least integer >= 0.8 * Len(s) when Len(s) > 3 and Len(s) otherwise
MeanOfLowest(s, x) ==
    LET n == Len(s)
        k == IF n > 3
             THEN CHOOSE j \in 0 .. n : 5 * j >= 4 * n /\ 5 * (j - 1) < 4 * n
             ELSE n
    IN  \E K \in SUBSET (1 .. n) :
            /\ Cardinality(K) = k
            /\ \A a \in K, b \in (1 .. n) \ K : s[a].rtd <= s[b].rtd
            /\ x.num * 2 * k = x.den * SumAt(s, K)

\* C2: a round with n >= 1 samples stores and returns the arithmetic mean of
\* the offsets of the ceil(0.8 n) samples of lowest round-trip delay when
\* n > 3, and of all n samples when n <= 3.
C2_MeanOfLowestDelay ==
    [][\A r \in Rounds :
        round[r].pc = "tail" /\ Completes(r) /\ Len(round[r].samples) >= 1 =>
            /\ MeanOfLowest(round[r].samples, round'[r].ret)
            /\ serverTimeOffset' = round'[r].ret
      ]_vars

\* five samples went in and the mean of four of them, 3/8, came out
C2_Witness ==
    /\ round[1].pc = "done" /\ round[1].got = 5
    /\ round[1].ret = [num |-> 3, den |-> 8]
    /\ serverTimeOffset = round[1].ret

ProbesInFlight(r) == {m \in net : m.kind = "probe" /\ m.id = r}

\* C4: a round has at most one probe in flight; while it runs, exactly probe
\* i is in flight and i + 1 probes were sent; when it returns, sampleCount
\* probes were sent, none twice, and none is in flight.
C4_SequentialProbes ==
    \A r \in Rounds :
        /\ Cardinality(ProbesInFlight(r)) <= 1
        /\ round[r].pc = "await" =>
            /\ \E m \in ProbesInFlight(r) : m.seq = round[r].i
            /\ round[r].issued = round[r].i + 1
        /\ round[r].pc = "done" =>
            /\ ProbesInFlight(r) = {}
            /\ round[r].issued = round[r].sampleCount

\* round 1 is at its second probe after a failed first, round 2 is in flight
\* too
C4_Witness ==
    /\ round[1].pc = "await" /\ round[1].i = 1 /\ round[1].got = 0
    /\ round[2].pc = "await"
    /\ Cardinality(net) = 2

\* what an operation returns when its exchange fails
Neutral(op) ==
    CASE op \in {"isConnected", "setupScript", "syncVideoTime", "setOffset"}
            -> Bool(FALSE)
      [] op = "getOffset" -> Num(0)
      [] OTHER -> Null

\* C5: no operation raises to its caller; on a transport failure or a body
\* that cannot be read it returns its neutral value (false, null, 0), and a
\* sync round all of whose probes failed returns the offset unchanged.
C5_NoExceptionEscapes ==
    /\ \A c \in Calls :
        call[c].pc = "done" =>
            /\ ~call[c].ret.raised
            /\ call[c].resp.kind # "ok" \/ call[c].resp.body = BodyNull =>
                call[c].ret.val = Neutral(call[c].op)
    /\ round[1].pc = "done" /\ round[1].got = 0 /\ ~round[1].foreign =>
        round[1].ret = round[1].pre

\* getMode got a body that is not JSON and returned null
C5_Witness ==
    \E c \in Calls :
        /\ call[c].pc = "done" /\ call[c].op = "getMode"
        /\ call[c].resp = BadJson
        /\ call[c].ret = Ret(Null)

\* the response carries a stream identifier in result.stream_id: a number
\* other than 0 or a string other than ""
CarriesStreamId(resp) ==
    /\ resp.kind = "ok"
    /\ resp.body.t = "obj"
    /\ "result" \in DOMAIN resp.body.f
    /\ resp.body.f["result"].t = "obj"
    /\ "stream_id" \in DOMAIN resp.body.f["result"].f
    /\ LET id == resp.body.f["result"].f["stream_id"]
       IN  \/ id.t = "num" /\ id.n # 0
           \/ id.t = "str" /\ id.s # ""

\* C6: setupScript and syncVideoTime return true if and only if the response
\* carries a stream identifier in result.stream_id, and false otherwise
\* (result absent, result without stream_id, the transport throwing).
C6_TrueIffStreamId ==
    \A c \in Calls :
        call[c].pc = "done" /\ call[c].op \in {"setupScript", "syncVideoTime"} =>
            /\ CarriesStreamId(call[c].resp) => call[c].ret = Ret(Bool(TRUE))
            /\ ~CarriesStreamId(call[c].resp) => call[c].ret = Ret(Bool(FALSE))

\* syncVideoTime got {result: {stream_id: "s1"}} and returned true
C6_Witness ==
    \E c \in Calls :
        /\ call[c].pc = "done" /\ call[c].op = "syncVideoTime"
        /\ call[c].resp = Ok(BodyStrId)
        /\ call[c].ret = Ret(Bool(TRUE))

ReadOps ==
    {"isConnected", "getDeviceInfo", "getMode", "getOffset", "getStrokeSettings"}

\* C7, as claimed: on an envelope with an error field and no result, every
\* read operation resolves to null.
C7_EveryReadOpNull ==
    \A c \in Calls :
        /\ call[c].pc = "done" /\ call[c].op \in ReadOps
        /\ call[c].resp = Ok(BodyError)
        => call[c].ret = Ret(Null)

\* C7, amended: on an envelope with an error field and no result, no read
\* operation raises; getDeviceInfo, getMode and getStrokeSettings resolve to
\* null, isConnected to false and getOffset to 0.
C7_ReadOpsOnErrorEnvelope ==
    \A c \in Calls :
        /\ call[c].pc = "done" /\ call[c].op \in ReadOps
        /\ call[c].resp = Ok(BodyError)
        => call[c].ret =
            Ret(CASE call[c].op = "isConnected" -> Bool(FALSE)
                  [] call[c].op = "getOffset" -> Num(0)
                  [] OTHER -> Null)

\* getDeviceInfo got the error envelope and returned null
C7_Witness ==
    \E c \in Calls :
        /\ call[c].pc = "done" /\ call[c].op = "getDeviceInfo"
        /\ call[c].resp = Ok(BodyError)
        /\ call[c].ret = Ret(Null)

\* C8, as claimed: every request sent, the remote-time probe included,
\* carries the connection key current when it is sent and the bearer
\* credential.
C8_EveryRequestCarriesKey ==
    [][\A m \in net' \ net :
        /\ m.hdr.present
        /\ m.hdr.key = connectionKey
        /\ m.hdr.auth = ApplicationId
      ]_vars

\* C8, amended: every request sent through request() carries the connection
\* key current when it is sent and the bearer credential; the remote-time
\* probe of getServerTime carries neither header; setConnectionKey leaves
\* the requests in flight as they are.
C8_RequestsCarryCurrentKey ==
    [][/\ \A m \in net' \ net :
            IF m.endpoint = "/servertime"
            THEN ~m.hdr.present
            ELSE /\ m.hdr.present
                 /\ m.hdr.key = connectionKey
                 /\ m.hdr.auth = ApplicationId
       /\ connectionKey' # connectionKey => net' = net
      ]_vars

\* a request sent with k1 is still in flight after the key became k2
C8_Witness ==
    /\ connectionKey = "k2"
    /\ \E m \in net : m.hdr.present /\ m.hdr.key = "k1"

\* C9, as claimed: every change of serverTimeOffset coincides with the
\* completion of a sync round.
C9_OnlyRoundsWrite ==
    [][serverTimeOffset' # serverTimeOffset => \E r \in Rounds : Completes(r)
      ]_vars

\* C9, amended: every change of serverTimeOffset is made by a sync round
\* that completes with at least one sample and returns the new value, or by
\* a call of setServerTimeOffset; no other operation writes it.
C9_RoundsAndSetterWrite ==
    [][serverTimeOffset' # serverTimeOffset =>
        \/ /\ hist'.writer = "syncTime"
           /\ \E r \in Rounds :
                /\ Completes(r)
                /\ round'[r].got >= 1
                /\ round'[r].ret = serverTimeOffset'
           /\ call' = call
        \/ /\ hist'.writer = "setServerTimeOffset"
           /\ hist'.lastWrite = serverTimeOffset'
           /\ \A r \in Rounds : ~Completes(r)
           /\ call' = call /\ net' = net
      ]_vars

\* a round has set the offset to 5 and setOffset has returned since, leaving
\* it there
C9_Witness ==
    /\ hist.writer = "syncTime"
    /\ round[1].pc = "done" /\ round[1].ret = serverTimeOffset
    /\ serverTimeOffset = Frac(5, 1)
    /\ call[1].pc = "done" /\ call[1].op = "setOffset"

\* st is t + x rounded to the nearest integer, a tie going up
IsRounded(st, t, x) ==
    LET twice == 2 * (t * x.den + x.num) + x.den    \* 2 * x.den * (t + x + 1/2)
    IN  2 * x.den * st <= twice /\ twice < 2 * x.den * (st + 1)

TimedInFlight == {m \in net : m.body.timed}

\* C10, as claimed: the server_time of a command is round(now + offset) at
\* dispatch, the offset being the value written by the most recently
\* completed sync round, or 0 if none completed.
C10_ServerTimeFromLastRound ==
    \A m \in TimedInFlight :
        IsRounded(m.body.server_time, m.ghost.at, m.ghost.roundWritten)

\* C10, amended: the server_time of a command is round(now + offset) at
\* dispatch, the offset being the value most recently written by a sync round
\* that completed with at least one sample or by setServerTimeOffset, or 0 if
\* there was neither; a round in progress exposes no intermediate value.
C10_ServerTimeFromLastWrite ==
    /\ \A m \in TimedInFlight :
        IsRounded(m.body.server_time, m.ghost.at, m.ghost.written)
    /\ serverTimeOffset = hist.lastWrite

\* a command was dispatched at time 1 with the half-integer offset of a
\* completed round while another round was in flight
C10_Witness ==
    \E m \in TimedInFlight :
        /\ m.ghost.at = 1
        /\ m.ghost.written.den = 2
        /\ m.ghost.written = m.ghost.roundWritten
        /\ \E r \in Rounds : round[r].pc = "await"
        /\ \E r \in Rounds : round[r].pc = "done" /\ round[r].got >= 1

====
